---- MODULE Spec2Model ----
(***************************************************************************)
(* Model of utapi-go (src/main.go): a client for the UploadThing HTTP API. *)
(* A client object holds the configuration; seven methods each issue one   *)
(* JSON POST through UtApi.post, and two free functions upload a multipart *)
(* form to a presigned URL.  The network, the file system and the .env     *)
(* file are inputs of the actions.                                         *)
(***************************************************************************)
EXTENDS Integers, Sequences, FiniteSets, TLC

VARIABLES environ, ut, last, calls, openFiles, openBodies

vars == <<environ, ut, last, calls, openFiles, openBodies>>

\* ---------------------------------------------------------------- bounds
MaxCalls == 2
MaxLen == 2

\* ------------------------------------------------------------- constants
Host == "https://api.uploadthing.com"
Version == "7.6.0"
BeAdapter == "github.com/IXackerr/utapi-go"
FePackage == ""

\* ------------------------------------------------------- input universes
ProcSecret == "sk_proc"
FileSecret == "sk_file"
UnsetVar == [set |-> FALSE, val |-> ""]
EnvValues == {UnsetVar, [set |-> TRUE, val |-> ""], [set |-> TRUE, val |-> ProcSecret]}
DotenvFiles ==
  { [ok |-> FALSE, has |-> FALSE, val |-> ""],
    [ok |-> TRUE,  has |-> FALSE, val |-> ""],
    [ok |-> TRUE,  has |-> TRUE,  val |-> ""],
    [ok |-> TRUE,  has |-> TRUE,  val |-> FileSecret] }

Statuses == {199, 200, 299, 300}
JsonBodies == {"garbage", "{}", "{ufsUrl}"}
TransportFailure == [kind |-> "fail", status |-> 0, body |-> ""]
ApiNets == {TransportFailure} \cup
           {[kind |-> "resp", status |-> s, body |-> b] : s \in Statuses, b \in JsonBodies}
UploadNets == {TransportFailure} \cup
              {[kind |-> "resp", status |-> s, body |-> ""] : s \in Statuses}

GoodUploadUrl == "https://bucket.s3.amazonaws.com/upload"
BadUploadUrl == ":no-scheme"
UploadUrls == {GoodUploadUrl, BadUploadUrl}

Range(s) == {s[i] : i \in DOMAIN s}

\* --------------------------------------------------- environment loading
\* os.Getenv: an unset variable reads as the empty string.
Getenv(e) == IF e.set THEN e.val ELSE ""

\* godotenv.Load(".env"): fails when the file cannot be read; otherwise
\* sets the variables of the file that the process does not have yet.
setEnvironmentVariablesFromFile(e, dotenv) ==
  IF ~dotenv.ok THEN [err |-> TRUE, env |-> e]
  ELSE IF dotenv.has /\ ~e.set
       THEN [err |-> FALSE, env |-> [set |-> TRUE, val |-> dotenv.val]]
       ELSE [err |-> FALSE, env |-> e]

\* Variant: the load error is printed but not returned.
handleSetEnvironmentVariablesSwallow(e, dotenv) ==
  [err |-> FALSE, env |-> setEnvironmentVariablesFromFile(e, dotenv).env]

handleSetEnvironmentVariables(e, dotenv) ==
  LET r == setEnvironmentVariablesFromFile(e, dotenv)
  IN IF r.err THEN [err |-> TRUE, env |-> r.env] ELSE [err |-> FALSE, env |-> r.env]

validateEnvironmentVariables(e) == Getenv(e) = ""

NoConfig == [nil |-> TRUE]
NoClient == [nil |-> TRUE]

getUploadthingConfig(e, dotenv) ==
  LET h == handleSetEnvironmentVariables(e, dotenv)
  IN IF h.err THEN [config |-> NoConfig, err |-> "dotenv", env |-> h.env]
     ELSE IF validateEnvironmentVariables(h.env)
          THEN [config |-> NoConfig, err |-> "not set", env |-> h.env]
          ELSE [config |-> [nil |-> FALSE, Host |-> Host, ApiKey |-> Getenv(h.env),
                            Version |-> Version],
                err |-> "nil", env |-> h.env]

NewUtApi(e, dotenv) ==
  LET c == getUploadthingConfig(e, dotenv)
  IN IF c.err # "nil" THEN [client |-> NoClient, err |-> c.err, env |-> c.env]
     ELSE [client |-> [nil |-> FALSE, config |-> c.config, httpClient |-> "http.Client",
                       fePackage |-> FePackage, beAdapter |-> BeAdapter],
           err |-> "nil", env |-> c.env]

\* ------------------------------------------------------------ HTTP layer
\* http.Header.Set: replaces the values of a header.
HeaderSet(h, k, v) == {p \in h : p[1] # k} \cup {<<k, v>>}
HeaderNames(h) == {p[1] : p \in h}

\* http.NewRequest fails when the URL does not parse.
NewRequestOk(url) == url # BadUploadUrl

\* Variant: the optional headers are set without the emptiness tests.
setHeadersUnconditional(u) ==
  LET h1 == HeaderSet({}, "Content-Type", "application/json")
      h2 == HeaderSet(h1, "x-uploadthing-api-key", u.config.ApiKey)
      h3 == HeaderSet(h2, "x-uploadthing-version", u.config.Version)
      h4 == HeaderSet(h3, "x-uploadthing-fe-package", u.fePackage)
  IN HeaderSet(h4, "x-uploadthing-be-adapter", u.beAdapter)

setHeaders(u) ==
  LET h1 == HeaderSet({}, "Content-Type", "application/json")
      h2 == HeaderSet(h1, "x-uploadthing-api-key", u.config.ApiKey)
      h3 == HeaderSet(h2, "x-uploadthing-version", u.config.Version)
      h4 == IF u.fePackage # "" THEN HeaderSet(h3, "x-uploadthing-fe-package", u.fePackage)
            ELSE h3
  IN IF u.beAdapter # "" THEN HeaderSet(h4, "x-uploadthing-be-adapter", u.beAdapter)
     ELSE h4

\* Variant: the upper limit of the success range is off by one.
postStatusErrorOffByOne(code) == code < 200 \/ code > 300

postStatusError(code) == code < 200 \/ code >= 300

NoResp == [kind |-> "nil", status |-> 0, body |-> ""]

\* Variant: a failed transport is tried a second time.
postRetry(u, path, body, net) ==
  LET url == u.config.Host \o path
      req == [method |-> "POST", url |-> url, headers |-> setHeaders(u), body |-> body]
  IN IF ~NewRequestOk(url)
     THEN [resp |-> NoResp, err |-> "request", sent |-> <<>>, built |-> FALSE,
           acquired |-> {}, open |-> {}, ut |-> u]
     ELSE IF net.kind = "fail"
     THEN [resp |-> NoResp, err |-> "transport", sent |-> <<req, req>>, built |-> TRUE,
           acquired |-> {}, open |-> {}, ut |-> u]
     ELSE IF postStatusError(net.status)
     THEN [resp |-> NoResp, err |-> "status", sent |-> <<req>>, built |-> TRUE,
           acquired |-> {"body"}, open |-> {"body"}, ut |-> u]
     ELSE [resp |-> net, err |-> "nil", sent |-> <<req>>, built |-> TRUE,
           acquired |-> {"body"}, open |-> {"body"}, ut |-> u]

\* Variant: post records the path in a field of the receiver.
postWritesReceiver(u, path, body, net) ==
  LET url == u.config.Host \o path
      req == [method |-> "POST", url |-> url, headers |-> setHeaders(u), body |-> body]
      w == [u EXCEPT !.fePackage = path]
  IN IF ~NewRequestOk(url)
     THEN [resp |-> NoResp, err |-> "request", sent |-> <<>>, built |-> FALSE,
           acquired |-> {}, open |-> {}, ut |-> w]
     ELSE IF net.kind = "fail"
     THEN [resp |-> NoResp, err |-> "transport", sent |-> <<req>>, built |-> TRUE,
           acquired |-> {}, open |-> {}, ut |-> w]
     ELSE IF postStatusError(net.status)
     THEN [resp |-> NoResp, err |-> "status", sent |-> <<req>>, built |-> TRUE,
           acquired |-> {"body"}, open |-> {"body"}, ut |-> w]
     ELSE [resp |-> net, err |-> "nil", sent |-> <<req>>, built |-> TRUE,
           acquired |-> {"body"}, open |-> {"body"}, ut |-> w]

\* The outcome of post: the response handed to the caller, the error kind,
\* the requests given to httpClient.Do, whether a request was constructed,
\* the response bodies received and those still open, and the receiver.
post(u, path, body, net) ==
  LET url == u.config.Host \o path
      req == [method |-> "POST", url |-> url, headers |-> setHeaders(u), body |-> body]
  IN IF ~NewRequestOk(url)
     THEN [resp |-> NoResp, err |-> "request", sent |-> <<>>, built |-> FALSE,
           acquired |-> {}, open |-> {}, ut |-> u]
     ELSE IF net.kind = "fail"
     THEN [resp |-> NoResp, err |-> "transport", sent |-> <<req>>, built |-> TRUE,
           acquired |-> {}, open |-> {}, ut |-> u]
     ELSE IF postStatusError(net.status)
     THEN \* the body is read with io.ReadAll and the response is dropped
          [resp |-> NoResp, err |-> "status", sent |-> <<req>>, built |-> TRUE,
           acquired |-> {"body"}, open |-> {"body"}, ut |-> u]
     ELSE [resp |-> net, err |-> "nil", sent |-> <<req>>, built |-> TRUE,
           acquired |-> {"body"}, open |-> {"body"}, ut |-> u]

\* json.NewDecoder(resp.Body).Decode(&result): a body that is not JSON is
\* an error; fields absent from the object keep their zero value.
jsonDecode(body) ==
  IF body = "garbage" THEN [err |-> TRUE, ufsUrl |-> ""]
  ELSE IF body = "{}" THEN [err |-> FALSE, ufsUrl |-> ""]
  ELSE [err |-> FALSE, ufsUrl |-> "https://ufs/f"]

\* A function returns: its deferred calls run, closing what they name.
closeDeferred(open, defers) == open \ Range(defers)

NilResult == [nil |-> TRUE, from |-> ""]
Decoded(body) == [nil |-> FALSE, from |-> body]

\* -------------------------------------------------------- client methods
\* Each method marshals its payload (json.Marshal cannot fail on these
\* types), posts it, defers the close of the body it got back and decodes
\* it.  An outcome records the result, the error kind, the requests sent,
\* the resources acquired, those still open after the return (leaked) and
\* the receiver after the call.

DeleteFiles(u, fileKeys, net) ==
  LET payload == [fileKeys |-> fileKeys]
      p == post(u, "/v6/deleteFiles", payload, net)
  IN IF p.err # "nil"
     THEN [result |-> NilResult, err |-> p.err, sent |-> p.sent, built |-> p.built,
           acquired |-> p.acquired, leaked |-> p.open, ut |-> p.ut]
     ELSE LET defers == <<"body">>
              d == jsonDecode(p.resp.body)
          IN IF d.err
             THEN [result |-> NilResult, err |-> "decode", sent |-> p.sent, built |-> p.built,
                   acquired |-> p.acquired, leaked |-> closeDeferred(p.open, defers),
                   ut |-> p.ut]
             ELSE [result |-> Decoded(p.resp.body), err |-> "nil", sent |-> p.sent,
                   built |-> p.built, acquired |-> p.acquired,
                   leaked |-> closeDeferred(p.open, defers), ut |-> p.ut]

ListFiles(u, limit, offset, net) ==
  LET payload == [limit |-> limit, offset |-> offset]
      p == post(u, "/v6/listFiles", payload, net)
  IN IF p.err # "nil"
     THEN [result |-> NilResult, err |-> p.err, sent |-> p.sent, built |-> p.built,
           acquired |-> p.acquired, leaked |-> p.open, ut |-> p.ut]
     ELSE LET defers == <<"body">>
              d == jsonDecode(p.resp.body)
          IN IF d.err
             THEN [result |-> NilResult, err |-> "decode", sent |-> p.sent, built |-> p.built,
                   acquired |-> p.acquired, leaked |-> closeDeferred(p.open, defers),
                   ut |-> p.ut]
             ELSE [result |-> Decoded(p.resp.body), err |-> "nil", sent |-> p.sent,
                   built |-> p.built, acquired |-> p.acquired,
                   leaked |-> closeDeferred(p.open, defers), ut |-> p.ut]

RenameFiles(u, updates, net) ==
  LET payload == [updates |-> updates]
      p == post(u, "/v6/renameFiles", payload, net)
  IN IF p.err # "nil"
     THEN [result |-> NilResult, err |-> p.err, sent |-> p.sent, built |-> p.built,
           acquired |-> p.acquired, leaked |-> p.open, ut |-> p.ut]
     ELSE LET defers == <<"body">>
              d == jsonDecode(p.resp.body)
          IN IF d.err
             THEN [result |-> NilResult, err |-> "decode", sent |-> p.sent, built |-> p.built,
                   acquired |-> p.acquired, leaked |-> closeDeferred(p.open, defers),
                   ut |-> p.ut]
             ELSE [result |-> Decoded(p.resp.body), err |-> "nil", sent |-> p.sent,
                   built |-> p.built, acquired |-> p.acquired,
                   leaked |-> closeDeferred(p.open, defers), ut |-> p.ut]

GetUsageInfo(u, net) ==
  LET payload == "{}"
      p == post(u, "/v6/getUsageInfo", payload, net)
  IN IF p.err # "nil"
     THEN [result |-> NilResult, err |-> p.err, sent |-> p.sent, built |-> p.built,
           acquired |-> p.acquired, leaked |-> p.open, ut |-> p.ut]
     ELSE LET defers == <<"body">>
              d == jsonDecode(p.resp.body)
          IN IF d.err
             THEN [result |-> NilResult, err |-> "decode", sent |-> p.sent, built |-> p.built,
                   acquired |-> p.acquired, leaked |-> closeDeferred(p.open, defers),
                   ut |-> p.ut]
             ELSE [result |-> Decoded(p.resp.body), err |-> "nil", sent |-> p.sent,
                   built |-> p.built, acquired |-> p.acquired,
                   leaked |-> closeDeferred(p.open, defers), ut |-> p.ut]

\* RequestFileAccessRequest: expiresIn carries omitempty, so a zero value
\* is left out of the marshalled object.
RequestFileAccessPayload(fileKey, expiresIn) ==
  IF expiresIn = 0 THEN [fileKey |-> fileKey]
  ELSE [fileKey |-> fileKey, expiresIn |-> expiresIn]

\* Variant: an empty ufsUrl in the decoded response is reported as an error.
GetPresignedUrlRejectsEmpty(u, fileKey, expiresIn, net) ==
  LET payload == RequestFileAccessPayload(fileKey, expiresIn)
      p == post(u, "/v6/requestFileAccess", payload, net)
  IN IF p.err # "nil"
     THEN [result |-> "", err |-> p.err, sent |-> p.sent, built |-> p.built,
           acquired |-> p.acquired, leaked |-> p.open, ut |-> p.ut]
     ELSE LET defers == <<"body">>
              d == jsonDecode(p.resp.body)
          IN IF d.err
             THEN [result |-> "", err |-> "decode", sent |-> p.sent, built |-> p.built,
                   acquired |-> p.acquired, leaked |-> closeDeferred(p.open, defers),
                   ut |-> p.ut]
             ELSE IF d.ufsUrl = ""
             THEN [result |-> "", err |-> "empty url", sent |-> p.sent, built |-> p.built,
                   acquired |-> p.acquired, leaked |-> closeDeferred(p.open, defers),
                   ut |-> p.ut]
             ELSE [result |-> d.ufsUrl, err |-> "nil", sent |-> p.sent,
                   built |-> p.built, acquired |-> p.acquired,
                   leaked |-> closeDeferred(p.open, defers), ut |-> p.ut]

GetPresignedUrl(u, fileKey, expiresIn, net) ==
  LET payload == RequestFileAccessPayload(fileKey, expiresIn)
      p == post(u, "/v6/requestFileAccess", payload, net)
  IN IF p.err # "nil"
     THEN [result |-> "", err |-> p.err, sent |-> p.sent, built |-> p.built,
           acquired |-> p.acquired, leaked |-> p.open, ut |-> p.ut]
     ELSE LET defers == <<"body">>
              d == jsonDecode(p.resp.body)
          IN IF d.err
             THEN [result |-> "", err |-> "decode", sent |-> p.sent, built |-> p.built,
                   acquired |-> p.acquired, leaked |-> closeDeferred(p.open, defers),
                   ut |-> p.ut]
             ELSE [result |-> d.ufsUrl, err |-> "nil", sent |-> p.sent,
                   built |-> p.built, acquired |-> p.acquired,
                   leaked |-> closeDeferred(p.open, defers), ut |-> p.ut]

GetAppInfo(u, net) ==
  LET payload == "{}"
      p == post(u, "/v7/getAppInfo", payload, net)
  IN IF p.err # "nil"
     THEN [result |-> NilResult, err |-> p.err, sent |-> p.sent, built |-> p.built,
           acquired |-> p.acquired, leaked |-> p.open, ut |-> p.ut]
     ELSE LET defers == <<"body">>
              d == jsonDecode(p.resp.body)
          IN IF d.err
             THEN [result |-> NilResult, err |-> "decode", sent |-> p.sent, built |-> p.built,
                   acquired |-> p.acquired, leaked |-> closeDeferred(p.open, defers),
                   ut |-> p.ut]
             ELSE [result |-> Decoded(p.resp.body), err |-> "nil", sent |-> p.sent,
                   built |-> p.built, acquired |-> p.acquired,
                   leaked |-> closeDeferred(p.open, defers), ut |-> p.ut]

GetPresignedUploadUrl(u, files, acl, net) ==
  LET payload == [files |-> files, acl |-> acl]
      p == post(u, "/v6/uploadFiles", payload, net)
  IN IF p.err # "nil"
     THEN [result |-> NilResult, err |-> p.err, sent |-> p.sent, built |-> p.built,
           acquired |-> p.acquired, leaked |-> p.open, ut |-> p.ut]
     ELSE LET defers == <<"body">>
              d == jsonDecode(p.resp.body)
          IN IF d.err
             THEN [result |-> NilResult, err |-> "decode", sent |-> p.sent, built |-> p.built,
                   acquired |-> p.acquired, leaked |-> closeDeferred(p.open, defers),
                   ut |-> p.ut]
             ELSE [result |-> Decoded(p.resp.body), err |-> "nil", sent |-> p.sent,
                   built |-> p.built, acquired |-> p.acquired,
                   leaked |-> closeDeferred(p.open, defers), ut |-> p.ut]

\* ------------------------------------------------------- multipart form
\* A reader over n bytes; the bytes are 1..n so that a prefix is
\* recognisable.
Bytes(n) == [i \in 1..n |-> i]
NilReader == [nil |-> TRUE, bytes |-> <<>>]
\* Lengths of the content offered and sizes announced: empty, the longest
\* and one short of it; a negative size besides.
Lens == {0, MaxLen - 1, MaxLen}
Readers == {NilReader} \cup {[nil |-> FALSE, bytes |-> Bytes(n)] : n \in Lens}
Sizes == {0 - 1} \cup Lens

FieldKeySets == {{}, {"acl", "file"}}
FieldValue(k) == IF k = "acl" THEN "public-read" ELSE "field-named-file"
FieldMaps == {[k \in S |-> FieldValue(k)] : S \in FieldKeySets}
Presigneds == {[FileName |-> "test.txt", Url |-> GoodUploadUrl, Fields |-> f] :
                 f \in FieldMaps}
              \cup {[FileName |-> "test.txt", Url |-> BadUploadUrl,
                     Fields |-> [k \in {} |-> ""]]}
\* Go iterates a map in an unspecified order: any enumeration of its keys.
Orders(fields) ==
  {o \in [1..Cardinality(DOMAIN fields) -> DOMAIN fields] :
     \A i, j \in DOMAIN o : i # j => o[i] # o[j]}

\* multipart.Writer.WriteField
FieldPart(k, v) == [name |-> k, isFile |-> FALSE, filename |-> "", value |-> v, data |-> <<>>]
\* multipart.Writer.CreateFormFile("file", fileName) and what is copied in
FilePart(fileName, data) ==
  [name |-> "file", isFile |-> TRUE, filename |-> fileName, value |-> "", data |-> data]

\* Variant: io.Copy, the whole content whatever the size.
copyAll(bytes, size) == [err |-> FALSE, data |-> bytes]

\* io.CopyN(fw, content, size): exactly size bytes, or io.EOF when the
\* reader ends before.
copyN(bytes, size) ==
  IF Len(bytes) < size THEN [err |-> TRUE, data |-> bytes]
  ELSE [err |-> FALSE, data |-> SubSeq(bytes, 1, size)]

MultipartContentType == "multipart/form-data; boundary=b"

\* CreateFormFile writes to a bytes.Buffer and cannot fail.
createMultipartForm(content, size, fileName, fields, order) ==
  LET fieldParts == [i \in 1..Len(order) |-> FieldPart(order[i], fields[order[i]])]
  IN IF ~content.nil /\ size > 0
     THEN LET c == copyN(content.bytes, size)
          IN IF c.err THEN [err |-> TRUE, body |-> <<>>, contentType |-> ""]
             ELSE [err |-> FALSE, body |-> Append(fieldParts, FilePart(fileName, c.data)),
                   contentType |-> MultipartContentType]
     ELSE [err |-> FALSE, body |-> Append(fieldParts, FilePart(fileName, <<>>)),
           contentType |-> MultipartContentType]

\* ------------------------------------------------------ upload functions
\* The outcome of a function that returns only an error.
ret(err, sent, built, acquired, defers) ==
  [err |-> err, sent |-> sent, built |-> built, acquired |-> acquired,
   leaked |-> closeDeferred(acquired, defers)]

\* Variant: the close of the file is not deferred.
deferFileCloseMissing(defers) == defers

deferFileClose(defers) == <<"file">> \o defers

deferBodyClose(defers) == <<"body">> \o defers

\* Variant: the upload request also carries the API key of the environment.
fileUploadHeadersWithKey(contentType) ==
  HeaderSet(HeaderSet({}, "Content-Type", contentType),
            "x-uploadthing-api-key", Getenv(environ))

fileUploadHeaders(contentType) == HeaderSet({}, "Content-Type", contentType)

contentUploadHeaders(contentType) == HeaderSet({}, "Content-Type", contentType)

fileUploadStatusError(code) == code < 200 \/ code >= 300

contentUploadStatusError(code) == code < 200 \/ code >= 300

\* fs: whether os.Open and file.Stat succeed, the size Stat reports and the
\* bytes the file yields when read.
UploadFileToPresignedUrl(fs, presigned, order, net) ==
  IF ~fs.openOk THEN ret("open", <<>>, FALSE, {}, <<>>)
  ELSE
  LET d1 == deferFileClose(<<>>)
      form == createMultipartForm([nil |-> FALSE, bytes |-> fs.bytes], fs.size,
                                  presigned.FileName, presigned.Fields, order)
      req == [method |-> "POST", url |-> presigned.Url,
              headers |-> fileUploadHeaders(form.contentType), body |-> form.body]
      d2 == deferBodyClose(d1)
  IN IF ~fs.statOk THEN ret("stat", <<>>, FALSE, {"file"}, d1)
     ELSE IF form.err THEN ret("form", <<>>, FALSE, {"file"}, d1)
     ELSE IF ~NewRequestOk(presigned.Url) THEN ret("request", <<>>, FALSE, {"file"}, d1)
     ELSE IF net.kind = "fail" THEN ret("transport", <<req>>, TRUE, {"file"}, d1)
     ELSE IF fileUploadStatusError(net.status)
          THEN ret("status", <<req>>, TRUE, {"file", "body"}, d2)
          ELSE ret("nil", <<req>>, TRUE, {"file", "body"}, d2)

UploadContentToPresignedUrl(content, size, presigned, order, net) ==
  LET form == createMultipartForm(content, size, presigned.FileName, presigned.Fields, order)
      req == [method |-> "POST", url |-> presigned.Url,
              headers |-> contentUploadHeaders(form.contentType), body |-> form.body]
      d1 == deferBodyClose(<<>>)
  IN IF form.err THEN ret("form", <<>>, FALSE, {}, <<>>)
     ELSE IF ~NewRequestOk(presigned.Url) THEN ret("request", <<>>, FALSE, {}, <<>>)
     ELSE IF net.kind = "fail" THEN ret("transport", <<req>>, TRUE, {}, <<>>)
     ELSE IF contentUploadStatusError(net.status)
          THEN ret("status", <<req>>, TRUE, {"body"}, d1)
          ELSE ret("nil", <<req>>, TRUE, {"body"}, d1)

FileSystems ==
  {[openOk |-> FALSE, statOk |-> FALSE, size |-> 0, bytes |-> <<>>],
   [openOk |-> TRUE, statOk |-> FALSE, size |-> 0, bytes |-> <<>>]} \cup
  {[openOk |-> TRUE, statOk |-> TRUE, size |-> sz, bytes |-> Bytes(n)] :
     sz \in Lens, n \in Lens}

\* ------------------------------------------------------------ the system
Init ==
  /\ environ \in EnvValues
  /\ ut = NoClient
  /\ last = [op |-> "init"]
  /\ calls = 0
  /\ openFiles = 0
  /\ openBodies = 0

Count(r, what) == IF what \in r.leaked THEN 1 ELSE 0

DoNewUtApi ==
  /\ ut.nil
  /\ \E dotenv \in DotenvFiles :
       LET r == NewUtApi(environ, dotenv)
       IN /\ environ' = r.env
          /\ ut' = r.client
          /\ last' = [op |-> "NewUtApi", in |-> [environ |-> environ, dotenv |-> dotenv],
                      out |-> r]
  /\ UNCHANGED <<calls, openFiles, openBodies>>

\* A client method has returned outcome r for inputs in.
Returned(op, in, r) ==
  /\ last' = [op |-> op, in |-> in, out |-> r]
  /\ ut' = r.ut
  /\ calls' = calls + 1
  /\ openBodies' = openBodies + Count(r, "body")
  /\ openFiles' = openFiles + Count(r, "file")
  /\ UNCHANGED environ

Callable == ~ut.nil /\ calls < MaxCalls

DoDeleteFiles ==
  /\ Callable
  /\ \E fileKeys \in {<<"k1">>}, net \in ApiNets :
       Returned("DeleteFiles", [fileKeys |-> fileKeys, net |-> net],
                DeleteFiles(ut, fileKeys, net))

DoListFiles ==
  /\ Callable
  /\ \E limit \in {100}, offset \in {0}, net \in ApiNets :
       Returned("ListFiles", [limit |-> limit, offset |-> offset, net |-> net],
                ListFiles(ut, limit, offset, net))

DoRenameFiles ==
  /\ Callable
  /\ \E updates \in {<<[fileKey |-> "k1", newName |-> "n1"]>>}, net \in ApiNets :
       Returned("RenameFiles", [updates |-> updates, net |-> net],
                RenameFiles(ut, updates, net))

DoGetUsageInfo ==
  /\ Callable
  /\ \E net \in ApiNets :
       Returned("GetUsageInfo", [net |-> net], GetUsageInfo(ut, net))

DoGetPresignedUrl ==
  /\ Callable
  /\ \E fileKey \in {"k1"}, expiresIn \in {0, 3600}, net \in ApiNets :
       Returned("GetPresignedUrl", [fileKey |-> fileKey, expiresIn |-> expiresIn, net |-> net],
                GetPresignedUrl(ut, fileKey, expiresIn, net))

DoGetAppInfo ==
  /\ Callable
  /\ \E net \in ApiNets :
       Returned("GetAppInfo", [net |-> net], GetAppInfo(ut, net))

DoGetPresignedUploadUrl ==
  /\ Callable
  /\ \E files \in {<<[name |-> "test.txt", size |-> 123, type |-> "text/plain"]>>},
        acl \in {"public-read"}, net \in ApiNets :
       Returned("GetPresignedUploadUrl", [files |-> files, acl |-> acl, net |-> net],
                GetPresignedUploadUrl(ut, files, acl, net))

\* The upload functions are free functions: they need no client.
Uploaded(op, in, r) ==
  /\ last' = [op |-> op, in |-> in, out |-> r]
  /\ calls' = calls + 1
  /\ openBodies' = openBodies + Count(r, "body")
  /\ openFiles' = openFiles + Count(r, "file")
  /\ UNCHANGED <<environ, ut>>

DoUploadFileToPresignedUrl ==
  /\ calls < MaxCalls
  /\ \E fs \in FileSystems, presigned \in Presigneds, net \in UploadNets :
       \E order \in Orders(presigned.Fields) :
         Uploaded("UploadFileToPresignedUrl",
                  [fs |-> fs, presigned |-> presigned, order |-> order, net |-> net],
                  UploadFileToPresignedUrl(fs, presigned, order, net))

DoUploadContentToPresignedUrl ==
  /\ calls < MaxCalls
  /\ \E content \in Readers, size \in Sizes, presigned \in Presigneds, net \in UploadNets :
       \E order \in Orders(presigned.Fields) :
         Uploaded("UploadContentToPresignedUrl",
                  [content |-> content, size |-> size, presigned |-> presigned,
                   order |-> order, net |-> net],
                  UploadContentToPresignedUrl(content, size, presigned, order, net))

Next ==
  \/ DoNewUtApi
  \/ DoDeleteFiles
  \/ DoListFiles
  \/ DoRenameFiles
  \/ DoGetUsageInfo
  \/ DoGetPresignedUrl
  \/ DoGetAppInfo
  \/ DoGetPresignedUploadUrl
  \/ DoUploadFileToPresignedUrl
  \/ DoUploadContentToPresignedUrl

Spec == Init /\ [][Next]_vars

\* ================================================================ claims
ClientOps == {"DeleteFiles", "ListFiles", "RenameFiles", "GetUsageInfo",
              "GetPresignedUrl", "GetAppInfo", "GetPresignedUploadUrl"}
UploadOps == {"UploadFileToPresignedUrl", "UploadContentToPresignedUrl"}
IsClientCall == last.op \in ClientOps
IsUploadCall == last.op \in UploadOps
IsCall == IsClientCall \/ IsUploadCall

\* The HTTP call of the last operation completed with a response.
Responded == IsCall /\ Len(last.out.sent) > 0 /\ last.in.net.kind = "resp"
InSuccessRange(code) == code \in 200..299
NoResultReturned ==
  IF last.op = "GetPresignedUrl" THEN last.out.result = ""
  ELSE IF IsClientCall THEN last.out.result.nil
  ELSE TRUE

\* C1: when the HTTP call of a client method or upload function completes
\* with a status outside 200..299 the operation returns a non-nil error and
\* no result; a status inside 200..299 is never reported as a status error.
C1_NonSuccessStatusIsError ==
  Responded =>
    /\ ~InSuccessRange(last.in.net.status) =>
         (last.out.err # "nil" /\ NoResultReturned)
    /\ InSuccessRange(last.in.net.status) => last.out.err # "status"

C1_Witness ==
  /\ last.op = "GetPresignedUrl"
  /\ last.in.net.kind = "resp"
  /\ last.in.net.status = 300
  /\ last.out.err = "status"
  /\ last.out.result = ""

ThreeKinds == {"transport", "status", "decode"}

\* C2 as stated: every error of the seven client methods and the two
\* upload functions is a failed HTTP call, a non-2xx status or a JSON decode
\* failure.
C2_OnlyThreeKinds ==
  IsCall => last.out.err \in {"nil"} \cup ThreeKinds

\* C2 as amended: the client methods return only the three kinds of error;
\* an upload function may also return the error of building the form (the
\* reader ended before size bytes) or of constructing the request from
\* presigned.Url, and UploadFileToPresignedUrl that of opening or stat-ing
\* the local file.
C2_ErrorKinds ==
  /\ IsClientCall => last.out.err \in {"nil"} \cup ThreeKinds
  /\ last.op = "UploadContentToPresignedUrl" =>
       last.out.err \in {"nil"} \cup ThreeKinds \cup {"form", "request"}
  /\ last.op = "UploadFileToPresignedUrl" =>
       last.out.err \in {"nil"} \cup ThreeKinds \cup {"form", "request", "open", "stat"}

C2_Witness ==
  /\ last.op = "UploadFileToPresignedUrl"
  /\ ~last.in.fs.openOk
  /\ last.out.err = "open"

\* C3: each call of a client method or upload function issues at most one
\* HTTP request, exactly one when the request was constructed and none
\* otherwise, whatever the outcome: there is no retry.
C3_OneRequestPerCall ==
  IsCall =>
    /\ Len(last.out.sent) <= 1
    /\ last.out.built => Len(last.out.sent) = 1
    /\ ~last.out.built => Len(last.out.sent) = 0

C3_Witness ==
  /\ last.op = "DeleteFiles"
  /\ last.in.net.kind = "fail"
  /\ last.out.err = "transport"
  /\ Len(last.out.sent) = 1

PathOf(op) ==
  CASE op = "DeleteFiles" -> "/v6/deleteFiles"
    [] op = "ListFiles" -> "/v6/listFiles"
    [] op = "RenameFiles" -> "/v6/renameFiles"
    [] op = "GetUsageInfo" -> "/v6/getUsageInfo"
    [] op = "GetPresignedUrl" -> "/v6/requestFileAccess"
    [] op = "GetAppInfo" -> "/v7/getAppInfo"
    [] op = "GetPresignedUploadUrl" -> "/v6/uploadFiles"

\* C4: every request of a client method is a POST to config.Host followed
\* by the method's path, with Content-Type application/json, the configured
\* API key and version, and the fe-package and be-adapter headers present
\* exactly when the client's fields are non-empty.
C4_RequestShape ==
  IsClientCall =>
    \A i \in DOMAIN last.out.sent :
      LET req == last.out.sent[i]
      IN /\ req.method = "POST"
         /\ req.url = ut.config.Host \o PathOf(last.op)
         /\ <<"Content-Type", "application/json">> \in req.headers
         /\ <<"x-uploadthing-api-key", ut.config.ApiKey>> \in req.headers
         /\ <<"x-uploadthing-version", ut.config.Version>> \in req.headers
         /\ "x-uploadthing-fe-package" \in HeaderNames(req.headers) <=> ut.fePackage # ""
         /\ "x-uploadthing-be-adapter" \in HeaderNames(req.headers) <=> ut.beAdapter # ""
         /\ \A h \in req.headers :
              /\ h[1] = "x-uploadthing-fe-package" => h[2] = ut.fePackage
              /\ h[1] = "x-uploadthing-be-adapter" => h[2] = ut.beAdapter
         /\ Cardinality(req.headers) = Cardinality(HeaderNames(req.headers))

C4_Witness ==
  /\ last.op = "GetAppInfo"
  /\ Len(last.out.sent) = 1
  /\ last.out.sent[1].url = "https://api.uploadthing.com/v7/getAppInfo"
  /\ "x-uploadthing-be-adapter" \in HeaderNames(last.out.sent[1].headers)
  /\ "x-uploadthing-fe-package" \notin HeaderNames(last.out.sent[1].headers)

\* C5: no client method or upload call, successful or failed, changes the
\* client's configuration or its fePackage and beAdapter fields.
C5_ClientUnchanged == [][~ut.nil => ut' = ut]_vars

C5_Witness ==
  /\ calls >= 2
  /\ last.op = "RenameFiles"
  /\ last.out.err = "decode"
  /\ ut.config.ApiKey = FileSecret
  /\ ut.beAdapter = "github.com/IXackerr/utapi-go"

\* C6: a file handle opened by UploadFileToPresignedUrl is closed when the
\* call returns, on every exit path; no handle stays open after a call.
C6_FileHandleClosed ==
  /\ openFiles = 0
  /\ last.op = "UploadFileToPresignedUrl" => "file" \notin last.out.leaked

C6_Witness ==
  /\ last.op = "UploadFileToPresignedUrl"
  /\ "file" \in last.out.acquired
  /\ last.out.err = "form"

\* C7: NewUtApi returns a client exactly when .env was loaded and
\* UPLOADTHING_SECRET is non-empty afterwards, and a nil client with an
\* error otherwise (also when the variable was already set but .env could
\* not be loaded); a client has the fixed host, a non-empty key equal to
\* the variable, and an HTTP client.
C7_NewUtApiContract ==
  /\ last.op = "NewUtApi" =>
       /\ ~last.out.client.nil <=> (last.in.dotenv.ok /\ Getenv(environ) # "")
       /\ last.out.client.nil <=> last.out.err # "nil"
       /\ ut = last.out.client
  /\ ~ut.nil =>
       /\ ut.config.Host = "https://api.uploadthing.com"
       /\ ut.config.ApiKey # ""
       /\ ut.config.ApiKey = Getenv(environ)
       /\ ut.httpClient # "nil"

C7_Witness ==
  /\ last.op = "NewUtApi"
  /\ ~last.in.dotenv.ok
  /\ last.in.environ = [set |-> TRUE, val |-> ProcSecret]
  /\ last.out.client.nil
  /\ last.out.err # "nil"

\* C8: every response body received by a client method or upload function
\* is closed before the operation returns, on every path.
C8_BodiesClosed ==
  /\ openBodies = 0
  /\ IsCall => "body" \notin last.out.leaked

ApiUrls == {"https://api.uploadthing.com" \o PathOf(op) : op \in ClientOps}

\* C9: the API key header is sent only to the host's fixed API paths; a
\* request of an upload function goes to presigned.Url and carries the
\* multipart Content-Type header and nothing else.
C9_KeyOnlyToApi ==
  IsCall =>
    \A i \in DOMAIN last.out.sent :
      LET req == last.out.sent[i]
      IN /\ "x-uploadthing-api-key" \in HeaderNames(req.headers) => req.url \in ApiUrls
         /\ IsUploadCall =>
              /\ req.url = last.in.presigned.Url
              /\ req.headers = {<<"Content-Type", MultipartContentType>>}

C9_Witness ==
  /\ last.op = "UploadFileToPresignedUrl"
  /\ ~ut.nil
  /\ Len(last.out.sent) = 1
  /\ last.out.err = "nil"

\* The reader and size an upload hands to the form builder, when it gets
\* that far.
FormReached ==
  \/ last.op = "UploadContentToPresignedUrl"
  \/ last.op = "UploadFileToPresignedUrl" /\ last.in.fs.openOk /\ last.in.fs.statOk
FormContent ==
  IF last.op = "UploadContentToPresignedUrl" THEN last.in.content
  ELSE [nil |-> FALSE, bytes |-> last.in.fs.bytes]
FormSize ==
  IF last.op = "UploadContentToPresignedUrl" THEN last.in.size ELSE last.in.fs.size
EmptyContent == FormContent.nil \/ FormSize <= 0

\* The body of a sent upload: the presigned fields, each once, then the
\* file part, last, with the first size bytes of the content.
BodyShape(body) ==
  LET fields == last.in.presigned.Fields
      n == Cardinality(DOMAIN fields)
  IN /\ Len(body) = n + 1
     /\ \A i \in 1..n : ~body[i].isFile
     /\ {<<body[i].name, body[i].value>> : i \in 1..n} = {<<k, fields[k]>> : k \in DOMAIN fields}
     /\ body[n + 1].isFile
     /\ body[n + 1].name = "file"
     /\ body[n + 1].filename = last.in.presigned.FileName
     /\ IF EmptyContent THEN body[n + 1].data = <<>>
        ELSE /\ Len(body[n + 1].data) = FormSize
             /\ \A j \in 1..FormSize : body[n + 1].data[j] = FormContent.bytes[j]

ShortRead == ~FormContent.nil /\ Len(FormContent.bytes) < FormSize

\* C10 as stated: the body holds the fields followed by one last file part
\* of exactly size bytes; a reader shorter than size gives an error and no
\* request; with a nil reader or size <= 0 the file part is empty and the
\* request is sent.
C10_FormAndAlwaysSent ==
  (IsUploadCall /\ FormReached) =>
    /\ \A i \in DOMAIN last.out.sent : BodyShape(last.out.sent[i].body)
    /\ ShortRead => (last.out.err # "nil" /\ last.out.sent = <<>>)
    /\ EmptyContent => Len(last.out.sent) = 1

\* C10 as amended: as stated, except that with a nil reader or size <= 0
\* the request is sent when it can be constructed from presigned.Url; when
\* it cannot, the call returns that error and sends nothing.
C10_FormAndSentIfBuilt ==
  (IsUploadCall /\ FormReached) =>
    /\ \A i \in DOMAIN last.out.sent : BodyShape(last.out.sent[i].body)
    /\ ShortRead => (last.out.err # "nil" /\ last.out.sent = <<>>)
    /\ EmptyContent =>
         IF NewRequestOk(last.in.presigned.Url) THEN Len(last.out.sent) = 1
         ELSE last.out.err = "request" /\ last.out.sent = <<>>

C10_Witness ==
  /\ last.op = "UploadContentToPresignedUrl"
  /\ last.in.content.nil
  /\ last.in.size > 0
  /\ Len(last.out.sent) = 1
  /\ Len(last.out.sent[1].body) = 3
  /\ last.out.sent[1].body[3].data = <<>>

====
